---- MODULE Spec2Model ----
(***************************************************************************)
(* AsyncRetryPolicy.send (azure-core, pipeline/policies/retry_async.py):   *)
(* one logical call of the retry loop, cut at its two suspension points    *)
(* (await next.send, await transport.sleep).  The helpers inherited from   *)
(* RetryPolicy (retry.py) are not part of the sources at hand; they are    *)
(* written from the design document.                                       *)
(* Durations are integers (one unit of time).                              *)
(*                                                                         *)
(* Further specifications over the same variables: SpecCalls (several      *)
(* send calls on one policy), SpecRequest (azure-cosmos _Request),         *)
(* SpecCredential (AuthorizationCodeCredential), SpecEnvironment           *)
(* (EnvironmentCredential), SpecAccount (create_database_if_not_exists)    *)
(* and SpecPolicy (_build_connection_policy).                              *)
(***************************************************************************)
EXTENDS Integers, Sequences, FiniteSets, TLC

\* ---------------------------------------------------------------- bounds
MaxRetryTotal == 2
MaxRetryConnect == 1
MaxRetryRead == 1
MaxBackoffFactor == 2
MaxBackoffMax == 3
MaxRetryAfter == 5

\* retry_status default documented in the class docstring
RetryStatusDefault == 3

\* ------------------------------------------------------------ input sets
Methods == {"GET", "POST"}
Statuses == {200, 404, 429, 503}
\* AzureError subclasses caught by `except AzureError` (connection error,
\* read error, any other), ClientAuthenticationError being caught before
AzureErrors == {"ServiceRequestError", "ServiceResponseError", "AzureError"}

\* the Retry-After header of a response: absent, or a count of seconds
NoHeader == [present |-> FALSE, value |-> 0]
RetryAfterHeaders ==
    {NoHeader} \cup {[present |-> TRUE, value |-> v] : v \in {0, MaxRetryAfter}}

OptionSets ==
    [retry_total : 0..MaxRetryTotal,
     retry_connect : 0..MaxRetryConnect,
     retry_read : 0..MaxRetryRead,
     retry_status : {0, 1, RetryStatusDefault},
     retry_backoff_factor : 0..MaxBackoffFactor,
     retry_backoff_max : (MaxBackoffMax - 1)..MaxBackoffMax]

\* Python's None for the local `response`, and "no error"
None == [kind |-> "none", status |-> 0, retry_after |-> NoHeader, id |-> 0]
NoError == "none"

NoSettings ==
    [total |-> 0, connect |-> 0, read |-> 0, status |-> 0, backoff |-> 0,
     max_backoff |-> 0, methods |-> {}, history |-> <<>>]

VARIABLES
    options,         \* request.context.options merged with the policy defaults
    method,          \* request.http_request.method
    pc,              \* "start", "send" (in next.send), "sleep" (in transport.sleep), "done"
    retry_active,    \* local of send
    response,        \* local of send
    retry_settings,  \* local of send
    attempts,        \* iterations of the while loop entered
    sends,           \* invocations of self.next.send
    trace,           \* what next.send produced, attempt by attempt
    waits,           \* per retry, the durations handed to transport.sleep
    sleeping,        \* duration of the transport.sleep in progress
    outcome,         \* what send gave its caller
    context,         \* update_context invocations
    frames,          \* several send calls in flight on one policy: the frame of each
    store,           \* the retry settings objects of those calls
    cosmos,          \* _Request: the request object and what the invocation did
    credential,      \* AuthorizationCodeCredential: the object, its AadClient, the calls
    environ,         \* EnvironmentCredential: os.environ, the object, the calls
    account,         \* CosmosClient: the databases of the account, the callers
    policy           \* _build_connection_policy: the kwargs and the policy built

vars == <<options, method, pc, retry_active, response, retry_settings,
          attempts, sends, trace, waits, sleeping, outcome, context,
          frames, store, cosmos, credential, environ, account, policy>>

\* the clients above the pipeline: credentials and the Cosmos client
clients == <<credential, environ, account, policy>>

\* the state of send calls run side by side, of _Request, and of the clients
others == <<frames, store, cosmos, clients>>

\* no client object exists
NoClients ==
    /\ credential = <<>>
    /\ environ = <<>>
    /\ account = <<>>
    /\ policy = <<>>

\* ------------------------------------------------- RetryPolicy (retry.py)
RECURSIVE Pow2(_)
Pow2(n) == IF n <= 0 THEN 1 ELSE 2 * Pow2(n - 1)

Min(a, b) == IF a <= b THEN a ELSE b

RetryCodes == {408, 429, 500, 502, 503, 504}
IdempotentMethods == {"GET", "HEAD", "OPTIONS"}

configure_retries(opts) ==
    [total |-> opts.retry_total,
     connect |-> opts.retry_connect,
     read |-> opts.retry_read,
     status |-> opts.retry_status,
     backoff |-> opts.retry_backoff_factor,
     max_backoff |-> opts.retry_backoff_max,
     methods |-> IdempotentMethods,
     history |-> <<>>]

\* min(cap, backoff_factor * 2^(n-1)), n the number of retries so far
get_backoff_time(settings) ==
    Min(settings.max_backoff,
        settings.backoff * Pow2(Len(settings.history) - 1))

get_retry_after(resp) == resp.retry_after

is_retry(settings, resp) == resp.status \in RetryCodes

_is_method_retryable(settings, m) == m \in settings.methods

_is_connection_error(err) == err = "ServiceRequestError"
_is_read_error(err) == err = "ServiceResponseError"

is_exhausted(settings) ==
    \/ settings.total < 0
    \/ settings.connect < 0
    \/ settings.read < 0
    \/ settings.status < 0

\* the settings after one more consumed retry (the total always, plus the
\* class of the failure); send's retry_active is ~is_exhausted of the result
increment(settings, resp, err) ==
    LET s1 == [settings EXCEPT !.total = @ - 1]
    IN  IF err # NoError /\ _is_connection_error(err)
        THEN [s1 EXCEPT !.connect = @ - 1, !.history = Append(@, err)]
        ELSE IF err # NoError /\ _is_read_error(err)
        THEN [s1 EXCEPT !.read = @ - 1, !.history = Append(@, err)]
        ELSE IF err # NoError
        THEN [s1 EXCEPT !.history = Append(@, err)]
        ELSE [s1 EXCEPT !.status = @ - 1, !.history = Append(@, "status")]

update_context(ctx, resp, settings) ==
    Append(ctx, [id |-> resp.id, history |-> settings.history])

\* ------------------------------------------- AsyncRetryPolicy (this file)
\* Python truthiness of the value get_retry_after returned
Truthy(retry_after) == retry_after.present /\ retry_after.value # 0

\* the transport.sleep calls made, and the value returned
_sleep_for_retry(resp) ==
    LET retry_after == get_retry_after(resp)
    IN  IF Truthy(retry_after)
        THEN [calls |-> <<retry_after.value>>, slept |-> TRUE]
        ELSE [calls |-> <<>>, slept |-> FALSE]

\* the transport.sleep calls made
_sleep_backoff_unguarded(settings) == <<get_backoff_time(settings)>>
_sleep_backoff(settings) ==
    LET backoff == get_backoff_time(settings)
    IN  IF backoff <= 0 THEN <<>> ELSE <<backoff>>

\* the transport.sleep calls made by sleep(settings, transport, response)
sleep_both(settings, resp) ==
    IF resp # None
    THEN _sleep_for_retry(resp).calls \o _sleep_backoff(settings)
    ELSE _sleep_backoff(settings)
sleep(settings, resp) ==
    IF resp # None
    THEN LET r == _sleep_for_retry(resp)
         IN  IF r.slept THEN r.calls ELSE _sleep_backoff(settings)
    ELSE _sleep_backoff(settings)

Init ==
    /\ options \in OptionSets
    /\ method \in Methods
    /\ pc = "start"
    /\ retry_active = FALSE
    /\ response = None
    /\ retry_settings = NoSettings
    /\ attempts = 0
    /\ sends = 0
    /\ trace = <<>>
    /\ waits = <<>>
    /\ sleeping = 0
    /\ outcome = [kind |-> "pending", response |-> None, error |-> NoError, id |-> 0]
    /\ context = <<>>
    /\ frames = <<>>
    /\ store = <<>>
    /\ cosmos = <<>>
    /\ NoClients

\* one more iteration of `while retry_active:` up to `await self.next.send`
EnterLoop ==
    /\ attempts' = attempts + 1
    /\ sends' = sends + 1
    /\ pc' = "send"

\* `await self.sleep(...)` followed by `continue`
SleepAndContinue(calls) ==
    /\ waits' = Append(waits, calls)
    /\ IF calls # <<>>
       THEN /\ pc' = "sleep"
            /\ sleeping' = calls[1]
            /\ UNCHANGED <<attempts, sends>>
       ELSE /\ EnterLoop
            /\ UNCHANGED sleeping

\* lines 148 and 155: `raise`; line 157 is not reached
Raise_recording(err) ==
    /\ outcome' = [kind |-> "raised", response |-> None, error |-> err, id |-> sends]
    /\ context' = Append(context, [id |-> sends, history |-> retry_settings.history])
    /\ pc' = "done"
Raise(err) ==
    /\ outcome' = [kind |-> "raised", response |-> None, error |-> err, id |-> sends]
    /\ context' = context
    /\ pc' = "done"

\* line 139: `if self.is_retry(retry_settings, response):`
ResponseNeedsRetry_always(settings, resp) == TRUE
ResponseNeedsRetry_by_method(settings, resp) ==
    is_retry(settings, resp) /\ _is_method_retryable(settings, method)
ResponseNeedsRetry(settings, resp) == is_retry(settings, resp)

\* line 150: `if self._is_method_retryable(retry_settings, request.http_request):`
MethodAllowsRetry_always(settings, m) == TRUE
MethodAllowsRetry(settings, m) == _is_method_retryable(settings, m)

\* lines 140-141: `retry_active = self.increment(retry_settings, response=response)`
\* tested by `if retry_active:`; the argument is the settings increment left
ResponseRetryActive_always(settings) == TRUE
ResponseRetryActive(settings) == ~is_exhausted(settings)

\* lines 151-152: `retry_active = self.increment(retry_settings, response=request, error=err)`
\* tested by `if retry_active:`
ErrorRetryActive_always(settings) == TRUE
ErrorRetryActive(settings) == ~is_exhausted(settings)

\* line 153: `await self.sleep(retry_settings, request.context.transport)`:
\* the response passed to sleep on the error path, the local `response`
\* being resp
ErrorSleepResponse_previous(resp) == resp
ErrorSleepResponse(resp) == None

\* lines 157-158: update_context, then `return response`
Return_raising(resp, settings) ==
    /\ context' = update_context(context, resp, settings)
    /\ outcome' = IF is_exhausted(settings)
                  THEN [kind |-> "raised", response |-> None, error |-> "AzureError", id |-> resp.id]
                  ELSE [kind |-> "returned", response |-> resp, error |-> NoError, id |-> resp.id]
    /\ pc' = "done"
Return_previous(resp, settings) ==
    /\ context' = update_context(context, resp, settings)
    /\ outcome' = [kind |-> "returned", response |-> response, error |-> NoError,
                   id |-> response.id]
    /\ pc' = "done"
Return_unrecorded(resp, settings) ==
    /\ context' = context
    /\ outcome' = [kind |-> "returned", response |-> resp, error |-> NoError, id |-> resp.id]
    /\ pc' = "done"
Return(resp, settings) ==
    /\ context' = update_context(context, resp, settings)
    /\ outcome' = [kind |-> "returned", response |-> resp, error |-> NoError, id |-> resp.id]
    /\ pc' = "done"

\* lines 133-138: the locals, then the first next.send
SendStart ==
    /\ pc = "start"
    /\ retry_active' = TRUE
    /\ response' = None
    /\ retry_settings' = configure_retries(options)
    /\ EnterLoop
    /\ UNCHANGED <<options, method, trace, waits, sleeping, outcome, context>>
    /\ UNCHANGED others

\* lines 138-144 and 157-158: next.send returned a response
NextSendReturns ==
    /\ pc = "send"
    /\ \E status \in Statuses, ra \in RetryAfterHeaders :
        LET resp == [kind |-> "response", status |-> status, retry_after |-> ra, id |-> sends]
            retry == ResponseNeedsRetry(retry_settings, resp)
            settings == IF retry THEN increment(retry_settings, resp, NoError)
                        ELSE retry_settings
            active == IF retry THEN ResponseRetryActive(settings) ELSE retry_active
        IN  /\ response' = resp
            /\ trace' = Append(trace, [kind |-> "response", status |-> status,
                                       retry_after |-> ra, error |-> NoError])
            /\ retry_settings' = settings
            /\ retry_active' = active
            /\ IF retry /\ active
               THEN /\ SleepAndContinue(sleep(settings, resp))
                    /\ UNCHANGED <<outcome, context>>
               ELSE /\ Return(resp, settings)
                    /\ UNCHANGED <<attempts, sends, waits, sleeping>>
    /\ UNCHANGED <<options, method>>
    /\ UNCHANGED others

\* lines 149-155: the handler of `except AzureError as err`
HandleAzureError(err) ==
    LET retryable == MethodAllowsRetry(retry_settings, method)
        settings == IF retryable THEN increment(retry_settings, None, err)
                    ELSE retry_settings
        active == IF retryable THEN ErrorRetryActive(settings) ELSE retry_active
    IN  /\ trace' = Append(trace, [kind |-> "error", status |-> 0,
                                   retry_after |-> NoHeader, error |-> err])
        /\ retry_settings' = settings
        /\ retry_active' = active
        /\ IF retryable /\ active
           THEN /\ SleepAndContinue(sleep(settings, ErrorSleepResponse(response)))
                /\ UNCHANGED <<outcome, context>>
           ELSE /\ Raise(err)
                /\ UNCHANGED <<attempts, sends, waits, sleeping>>
        /\ UNCHANGED <<options, method, response>>
        /\ UNCHANGED others

\* lines 145-148: the authentication policy failed; re-raised as it is
NextSendRaisesAuth_retried ==
    /\ pc = "send"
    /\ HandleAzureError("ClientAuthenticationError")
NextSendRaisesAuth ==
    /\ pc = "send"
    /\ trace' = Append(trace, [kind |-> "error", status |-> 0, retry_after |-> NoHeader,
                               error |-> "ClientAuthenticationError"])
    /\ Raise("ClientAuthenticationError")
    /\ UNCHANGED <<options, method, retry_active, response, retry_settings,
                   attempts, sends, waits, sleeping>>
    /\ UNCHANGED others

\* lines 149-155: a connection error, a read error, any other AzureError
NextSendRaisesAzureError ==
    /\ pc = "send"
    /\ \E err \in AzureErrors :
        HandleAzureError(err)

\* an exception that is not an AzureError is caught by no except clause
NextSendRaisesOther ==
    /\ pc = "send"
    /\ trace' = Append(trace, [kind |-> "error", status |-> 0, retry_after |-> NoHeader,
                               error |-> "Exception"])
    /\ Raise("Exception")
    /\ UNCHANGED <<options, method, retry_active, response, retry_settings,
                   attempts, sends, waits, sleeping>>
    /\ UNCHANGED others

\* transport.sleep completes: `continue`, next iteration, next.send
TransportSleepReturns_reconfigure ==
    /\ pc = "sleep"
    /\ EnterLoop
    /\ retry_settings' = configure_retries(options)
    /\ UNCHANGED <<options, method, retry_active, response,
                   trace, waits, sleeping, outcome, context>>
    /\ UNCHANGED others
TransportSleepReturns ==
    /\ pc = "sleep"
    /\ EnterLoop
    /\ UNCHANGED <<options, method, retry_active, response, retry_settings,
                   trace, waits, sleeping, outcome, context>>
    /\ UNCHANGED others

Next ==
    \/ SendStart
    \/ NextSendReturns
    \/ NextSendRaisesAuth
    \/ NextSendRaisesAzureError
    \/ NextSendRaisesOther
    \/ TransportSleepReturns

Spec == Init /\ [][Next]_vars

TypeOK ==
    /\ pc \in {"start", "send", "sleep", "done"}
    /\ sends \in 0..(MaxRetryTotal + 2)
    /\ Len(trace) <= sends

\* ------------------------------------------- several calls on one policy
\* Two send calls run interleaved on the same AsyncRetryPolicy instance (one
\* event loop): each has its own frame, a step of a call runs from one await
\* to the next, and the caller may cancel a call that is suspended.
Callers == {"c1", "c2"}
CallStatuses == {200, 503}
CallHeaders == {NoHeader, [present |-> TRUE, value |-> MaxRetryAfter]}
CallErrors == {"ServiceRequestError"}

\* the policy's settings: the retry total varies, the rest is at its bound
CallOptionSets ==
    {o \in OptionSets :
        /\ o.retry_connect = MaxRetryConnect
        /\ o.retry_read = MaxRetryRead
        /\ o.retry_status = RetryStatusDefault
        /\ o.retry_backoff_factor = MaxBackoffFactor
        /\ o.retry_backoff_max = MaxBackoffMax}

NewFrame(m) ==
    [pc |-> "start", method |-> m, retry_active |-> FALSE, response |-> None,
     attempts |-> 0, sends |-> 0, trace |-> <<>>, waits |-> <<>>,
     outcome |-> [kind |-> "pending", response |-> None, error |-> NoError, id |-> 0],
     context |-> <<>>]

\* line 135: `retry_settings = ...` binds a local of the coroutine, so each
\* call holds its own settings object
SettingsSlot_on_policy(c) == "c1"
SettingsSlot(c) == c

\* lines 142 and 153: the transport.sleep calls `await self.sleep(...)` may make
SleepChoices_jitter(settings, resp) ==
    LET w == sleep(settings, resp)
    IN  IF w = <<>> THEN {w} ELSE {w, <<w[1] + 1>>}
SleepChoices(settings, resp) == {sleep(settings, resp)}

InitCalls ==
    /\ options \in CallOptionSets
    /\ frames \in [Callers -> {NewFrame(m) : m \in Methods}]
    /\ store = [c \in Callers |-> NoSettings]
    /\ method = "GET"
    /\ pc = "off"
    /\ retry_active = FALSE
    /\ response = None
    /\ retry_settings = NoSettings
    /\ attempts = 0
    /\ sends = 0
    /\ trace = <<>>
    /\ waits = <<>>
    /\ sleeping = 0
    /\ outcome = [kind |-> "pending", response |-> None, error |-> NoError, id |-> 0]
    /\ context = <<>>
    /\ cosmos = <<>>
    /\ NoClients

single == <<options, method, pc, retry_active, response, retry_settings,
            attempts, sends, trace, waits, sleeping, outcome, context>>

\* the frame after `while retry_active:` ... `await self.next.send(request)`
FrameEnterLoop(f) ==
    [f EXCEPT !.attempts = @ + 1, !.sends = @ + 1, !.pc = "send"]

\* the frame after `await self.sleep(...)` made the calls w, and `continue`
FrameSleepAndContinue(f, w) ==
    IF w # <<>>
    THEN [f EXCEPT !.waits = Append(@, w), !.pc = "sleep"]
    ELSE FrameEnterLoop([f EXCEPT !.waits = Append(@, w)])

\* lines 133-138 for call c
CallStart(c) ==
    /\ frames[c].pc = "start"
    /\ store' = [store EXCEPT ![SettingsSlot(c)] = configure_retries(options)]
    /\ frames' = [frames EXCEPT ![c] =
                    FrameEnterLoop([@ EXCEPT !.retry_active = TRUE, !.response = None])]
    /\ UNCHANGED <<single, cosmos, clients>>

\* lines 138-144 and 157-158 for call c
CallNextSendReturns(c) ==
    /\ frames[c].pc = "send"
    /\ \E status \in CallStatuses, ra \in CallHeaders :
        LET f == frames[c]
            resp == [kind |-> "response", status |-> status, retry_after |-> ra,
                     id |-> f.sends]
            retry == ResponseNeedsRetry(store[SettingsSlot(c)], resp)
            settings == IF retry THEN increment(store[SettingsSlot(c)], resp, NoError)
                        ELSE store[SettingsSlot(c)]
            active == IF retry THEN ResponseRetryActive(settings) ELSE f.retry_active
            g == [f EXCEPT !.response = resp,
                           !.retry_active = active,
                           !.trace = Append(@, [kind |-> "response", status |-> status,
                                                retry_after |-> ra, error |-> NoError])]
        IN  /\ store' = [store EXCEPT ![SettingsSlot(c)] = settings]
            /\ IF retry /\ active
               THEN \E w \in SleepChoices(settings, resp) :
                        frames' = [frames EXCEPT ![c] = FrameSleepAndContinue(g, w)]
               ELSE frames' = [frames EXCEPT ![c] =
                        [g EXCEPT !.context = update_context(@, resp, settings),
                                  !.outcome = [kind |-> "returned", response |-> resp,
                                               error |-> NoError, id |-> resp.id],
                                  !.pc = "done"]]
    /\ UNCHANGED <<single, cosmos, clients>>

\* lines 145-148 for call c
CallNextSendRaisesAuth(c) ==
    /\ frames[c].pc = "send"
    /\ frames' = [frames EXCEPT ![c] =
            [@ EXCEPT !.trace = Append(@, [kind |-> "error", status |-> 0,
                                           retry_after |-> NoHeader,
                                           error |-> "ClientAuthenticationError"]),
                      !.outcome = [kind |-> "raised", response |-> None,
                                   error |-> "ClientAuthenticationError",
                                   id |-> frames[c].sends],
                      !.pc = "done"]]
    /\ UNCHANGED <<single, store, cosmos, clients>>

\* lines 149-155 for call c
CallNextSendRaisesAzureError(c) ==
    /\ frames[c].pc = "send"
    /\ \E err \in CallErrors :
        LET f == frames[c]
            retryable == MethodAllowsRetry(store[SettingsSlot(c)], f.method)
            settings == IF retryable THEN increment(store[SettingsSlot(c)], None, err)
                        ELSE store[SettingsSlot(c)]
            active == IF retryable THEN ErrorRetryActive(settings) ELSE f.retry_active
            g == [f EXCEPT !.retry_active = active,
                           !.trace = Append(@, [kind |-> "error", status |-> 0,
                                                retry_after |-> NoHeader, error |-> err])]
        IN  /\ store' = [store EXCEPT ![SettingsSlot(c)] = settings]
            /\ IF retryable /\ active
               THEN \E w \in SleepChoices(settings, ErrorSleepResponse(f.response)) :
                        frames' = [frames EXCEPT ![c] = FrameSleepAndContinue(g, w)]
               ELSE frames' = [frames EXCEPT ![c] =
                        [g EXCEPT !.outcome = [kind |-> "raised", response |-> None,
                                               error |-> err, id |-> f.sends],
                                  !.pc = "done"]]
    /\ UNCHANGED <<single, cosmos, clients>>

\* transport.sleep of call c completes
CallSleepReturns(c) ==
    /\ frames[c].pc = "sleep"
    /\ frames' = [frames EXCEPT ![c] = FrameEnterLoop(@)]
    /\ UNCHANGED <<single, store, cosmos, clients>>

\* the caller abandons call c while it is suspended in next.send or in
\* transport.sleep: the cancellation passes through send (no except clause
\* matches it) and the frame is dropped
CallAbandon(c) ==
    /\ frames[c].pc \in {"send", "sleep"}
    /\ frames' = [frames EXCEPT ![c] = [@ EXCEPT !.pc = "abandoned"]]
    /\ UNCHANGED <<single, store, cosmos, clients>>

NextCalls ==
    \/ \E c \in Callers : CallStart(c)
    \/ \E c \in Callers : CallNextSendReturns(c)
    \/ \E c \in Callers : CallNextSendRaisesAuth(c)
    \/ \E c \in Callers : CallNextSendRaisesAzureError(c)
    \/ \E c \in Callers : CallSleepReturns(c)
    \/ \E c \in Callers : CallAbandon(c)

SpecCalls == InitCalls /\ [][NextCalls]_vars


\* ------------------------------ _Request (cosmos/_synchronized_request.py)
\* URLs are strings, modelled as sequences of characters: "h" stands for
\* the scheme with its "://", "a" and "b" are host names, "/" separates,
\* "m" stands for the word "media".
MaxPathLen == 2
MaxInvocations == 2

\* pipeline_client._base_url, and the endpoints the manager can resolve to
ClientBaseUrl == <<"h", "a">>
Endpoints == {<<"h", "a">>, <<"h", "b">>}
\* request_params.endpoint_override: not set, or an endpoint
NoOverride == <<>>
Overrides == {NoOverride, <<"h", "b">>}
PathChars == {"h", "a", "m"}
UrlTails == UNION {[1..n -> PathChars] : n \in 0..MaxPathLen}
\* the URL the pipeline client gave the request: its base URL, then the path
RequestUrls == {ClientBaseUrl \o <<"/">> \o t : t \in UrlTails}

MediaReadModes == {"Buffered", "Streamed"}
CosmosStatuses == {200, 404, 409, 412, 500}
\* response.body(): empty, JSON text, text that is not JSON, bytes that are
\* not UTF-8
Bodies == {"", "json", "garbage", "bytes"}
PipelineOutcomes ==
    [kind : {"response"}, status : CosmosStatuses, body : Bodies]
    \cup {[kind |-> "error", status |-> 0, body |-> ""]}
NoOutcome == [kind |-> "none", status |-> 0, body |-> ""]

\* str.replace(old, new): every occurrence, leftmost first, not overlapping
RECURSIVE Replace(_, _, _)
Replace(str, old, new) ==
    IF Len(str) < Len(old)
    THEN str
    ELSE IF SubSeq(str, 1, Len(old)) = old
         THEN new \o Replace(SubSeq(str, Len(old) + 1, Len(str)), old, new)
         ELSE <<str[1]>> \o Replace(Tail(str), old, new)

\* str.find(sub) > -1
Contains(str, sub) ==
    \E i \in 1..(Len(str) - Len(sub) + 1) : SubSeq(str, i, i + Len(sub) - 1) = sub

\* urlparse: scheme and host run up to the first "/", path and query follow
FirstSlash(url) ==
    IF \E i \in DOMAIN url : url[i] = "/"
    THEN CHOOSE i \in DOMAIN url : url[i] = "/" /\ \A j \in 1..(i - 1) : url[j] # "/"
    ELSE Len(url) + 1
UrlBase(url) == SubSeq(url, 1, FirstSlash(url) - 1)
UrlPathQuery(url) == SubSeq(url, FirstSlash(url), Len(url))

\* lines 101-106: the URL of the request after the endpoint was resolved
RewriteUrl(url, client_base_url, base_url) ==
    IF base_url # client_base_url
    THEN Replace(url, client_base_url, base_url)
    ELSE url

\* how many times the call e occurs among the calls made
Count(calls, e) == Cardinality({i \in DOMAIN calls : calls[i] = e})

\* lines 99-104: the calls made on the endpoint manager, then the pipeline run
RequestEvents_refresh_when_resolving(override) ==
    IF override # NoOverride
    THEN <<"run">>
    ELSE <<"refresh_endpoint_list", "resolve_service_endpoint", "run">>
RequestEvents(override) ==
    IF override # NoOverride
    THEN <<"refresh_endpoint_list", "run">>
    ELSE <<"refresh_endpoint_list", "resolve_service_endpoint", "run">>

\* what _Request gives its caller: a result, or an error with the response
\* (its status) and the inner error it carries
Returned(value) ==
    [kind |-> "returned", error |-> NoError, value |-> value,
     status |-> 0, inner |-> NoError]
Raised(error, status, inner) ==
    [kind |-> "raised", error |-> error, value |-> "None",
     status |-> status, inner |-> inner]

\* line 154: data.decode("utf-8") raises UnicodeDecodeError on other bytes
Utf8Decodable(body) == body # "bytes"

\* line 171: json.loads(data), the error it raises
JsonLoads(body) ==
    IF body = "json" THEN NoError
    ELSE IF body = "bytes" THEN "UnicodeDecodeError"
    ELSE "JSONDecodeError"

\* lines 156-163: the error class of a status code
StatusError(status) ==
    IF status = 404 THEN "CosmosResourceNotFoundError"
    ELSE IF status = 409 THEN "CosmosResourceExistsError"
    ELSE IF status = 412 THEN "CosmosAccessConditionFailedError"
    ELSE IF status >= 400 THEN "CosmosHttpResponseError"
    ELSE NoError

\* lines 151-178: the body is read, decoded (not under Python 2), the status
\* is checked, the data is parsed
BufferedResult(out, is_media, py2) ==
    IF ~py2 /\ ~Utf8Decodable(out.body)
    THEN Raised("UnicodeDecodeError", 0, NoError)
    ELSE IF StatusError(out.status) # NoError
    THEN Raised(StatusError(out.status), out.status, NoError)
    ELSE IF is_media
    THEN Returned("data")
    ELSE IF out.body = ""
    THEN Returned("None")
    ELSE IF JsonLoads(out.body) = NoError
    THEN Returned("dict")
    ELSE Raised("DecodeError", out.status, JsonLoads(out.body))

\* lines 143-178: what _Request does with the response of the pipeline
RequestResult_status_first(out, is_media, is_media_stream, py2) ==
    IF StatusError(out.status) # NoError
    THEN Raised(StatusError(out.status), out.status, NoError)
    ELSE IF is_media_stream
    THEN Returned("stream")
    ELSE BufferedResult(out, is_media, py2)
RequestResult(out, is_media, is_media_stream, py2) ==
    IF is_media_stream
    THEN Returned("stream")
    ELSE BufferedResult(out, is_media, py2)

InitRequest ==
    /\ cosmos \in {[url |-> u, url0 |-> u, MediaReadMode |-> mode, PY2 |-> py2,
                    invocations |-> 0, refreshes |-> 0, resolves |-> 0, runs |-> 0,
                    events |-> <<>>, override |-> NoOverride,
                    base_url |-> ClientBaseUrl, url_in |-> u,
                    out |-> NoOutcome,
                    result |-> [kind |-> "none", error |-> NoError, value |-> "None",
                                status |-> 0, inner |-> NoError]]
                   : u \in RequestUrls, mode \in MediaReadModes, py2 \in BOOLEAN}
    /\ options = [retry_total |-> 0, retry_connect |-> 0, retry_read |-> 0,
                  retry_status |-> 0, retry_backoff_factor |-> 0,
                  retry_backoff_max |-> MaxBackoffMax]
    /\ method = "GET"
    /\ pc = "off"
    /\ retry_active = FALSE
    /\ response = None
    /\ retry_settings = NoSettings
    /\ attempts = 0
    /\ sends = 0
    /\ trace = <<>>
    /\ waits = <<>>
    /\ sleeping = 0
    /\ outcome = [kind |-> "pending", response |-> None, error |-> NoError, id |-> 0]
    /\ context = <<>>
    /\ frames = <<>>
    /\ store = <<>>
    /\ NoClients

\* one invocation of _Request on the request object (SynchronizedRequest
\* hands _Request to the retry utility, which may invoke it again)
Request ==
    /\ cosmos.invocations < MaxInvocations
    /\ \E override \in Overrides, out \in PipelineOutcomes :
       \E resolved \in IF override # NoOverride THEN {override} ELSE Endpoints :
        LET is_media == Contains(cosmos.url, <<"m">>)
            is_media_stream == is_media /\ cosmos.MediaReadMode = "Streamed"
            base_url == IF override # NoOverride THEN override ELSE resolved
            url == RewriteUrl(cosmos.url, ClientBaseUrl, base_url)
            events == RequestEvents(override)
        IN  cosmos' = [cosmos EXCEPT
                !.invocations = @ + 1,
                !.refreshes = @ + Count(events, "refresh_endpoint_list"),
                !.resolves = @ + Count(events, "resolve_service_endpoint"),
                !.events = events,
                !.override = override,
                !.base_url = base_url,
                !.url = url,
                !.url_in = cosmos.url,
                !.runs = @ + Count(events, "run"),
                !.out = out,
                !.result = IF out.kind = "error"
                           THEN Raised("AzureError", 0, NoError)
                           ELSE RequestResult(out, is_media, is_media_stream,
                                              cosmos.PY2)]
    /\ UNCHANGED <<single, frames, store, clients>>

NextRequest == Request

SpecRequest == InitRequest /\ [][NextRequest]_vars

\* ------------- the clients above the pipeline: what the other parts are
\* no send call, no _Request invocation
NoSend ==
    /\ options = [retry_total |-> 0, retry_connect |-> 0, retry_read |-> 0,
                  retry_status |-> 0, retry_backoff_factor |-> 0,
                  retry_backoff_max |-> MaxBackoffMax]
    /\ method = "GET"
    /\ pc = "off"
    /\ retry_active = FALSE
    /\ response = None
    /\ retry_settings = NoSettings
    /\ attempts = 0
    /\ sends = 0
    /\ trace = <<>>
    /\ waits = <<>>
    /\ sleeping = 0
    /\ outcome = [kind |-> "pending", response |-> None, error |-> NoError, id |-> 0]
    /\ context = <<>>
    /\ frames = <<>>
    /\ store = <<>>
    /\ cosmos = <<>>

\* -------- AuthorizationCodeCredential (identity/_credentials/authorization_code.py)
MaxGetToken == 3
MaxRefreshTokens == 2

\* the authorization_code argument: a code, or an empty string
AuthorizationCodes == {"code", ""}
\* what a call on the AadClient does
ClientOutcomes == {"token", "None", "raises"}

\* line 54: `if self._authorization_code:` (None and "" are false)
CodeTruthy(code) == code \notin {"None", ""}

\* lines 34-40; the AadClient is new, or the one passed as `client`, whose
\* cache may hold an access token and refresh tokens
InitCredential ==
    /\ credential \in
         {[_authorization_code |-> code, cached_access |-> a, refresh_tokens |-> n,
           calls |-> 0, submitted |-> <<>>, refreshed |-> 0,
           result |-> "none"]
          : code \in AuthorizationCodes, a \in BOOLEAN, n \in 0..MaxRefreshTokens}
    /\ NoSend
    /\ environ = <<>>
    /\ account = <<>>
    /\ policy = <<>>

\* lines 69-75: the refresh tokens of the cache are tried in turn until
\* obtain_token_by_refresh_token gives a token (or raises); outs is what it
\* does for each of them
_redeem_refresh_token(outs) ==
    IF \E i \in DOMAIN outs : outs[i] # "None"
    THEN LET i == CHOOSE k \in DOMAIN outs :
                      outs[k] # "None" /\ \A j \in 1..(k - 1) : outs[j] = "None"
         IN  [result |-> outs[i], tried |-> i]
    ELSE [result |-> "None", tried |-> Len(outs)]

\* lines 42-67: one get_token call
get_token ==
    /\ credential.calls < MaxGetToken
    /\ IF CodeTruthy(credential._authorization_code)
       THEN \E out \in {"token", "raises"}, n \in 0..MaxRefreshTokens :
                credential' = [credential EXCEPT
                    !.calls = @ + 1,
                    !.submitted = Append(@, credential.calls + 1),
                    !._authorization_code = IF out = "token" THEN "None" ELSE @,
                    !.cached_access = IF out = "token" THEN TRUE ELSE @,
                    !.refresh_tokens = IF out = "token" THEN n ELSE @,
                    !.result = IF out = "token" THEN "token" ELSE "Exception"]
       ELSE \E hit \in {FALSE, credential.cached_access},
               outs \in [1..credential.refresh_tokens -> ClientOutcomes] :
                LET r == IF hit
                         THEN [result |-> "token", tried |-> 0]
                         ELSE _redeem_refresh_token(outs)
                IN  credential' = [credential EXCEPT
                        !.calls = @ + 1,
                        !.refreshed = @ + r.tried,
                        !.cached_access = IF r.result = "token" THEN TRUE ELSE hit,
                        !.result = IF r.result = "token" THEN "token"
                                   ELSE IF r.result = "raises" THEN "Exception"
                                   ELSE "ClientAuthenticationError"]
    /\ UNCHANGED <<single, frames, store, cosmos, environ, account, policy>>

NextCredential == get_token

SpecCredential == InitCredential /\ [][NextCredential]_vars

\* ------------- EnvironmentCredential (identity/_credentials/environment.py)
EnvironmentVariableNames ==
    {"AZURE_CLIENT_ID", "AZURE_CLIENT_SECRET", "AZURE_TENANT_ID",
     "AZURE_CLIENT_CERTIFICATE_PATH", "AZURE_USERNAME", "AZURE_PASSWORD"}
\* os.environ.get(v): None when v is not set, else its value (maybe empty)
EnvironmentValues == {"None", "", "value"}

\* EnvironmentVariables (_constants.py), as the class docstring lists them
CLIENT_SECRET_VARS == {"AZURE_CLIENT_ID", "AZURE_CLIENT_SECRET", "AZURE_TENANT_ID"}
CERT_VARS == {"AZURE_CLIENT_ID", "AZURE_CLIENT_CERTIFICATE_PATH", "AZURE_TENANT_ID"}
USERNAME_PASSWORD_VARS == {"AZURE_CLIENT_ID", "AZURE_USERNAME", "AZURE_PASSWORD"}

\* `all(os.environ.get(v) is not None for v in names)`
AllSet(os_environ, names) == \A v \in names : os_environ[v] # "None"

\* lines 50-75: the credential __init__ stores in self._credential
EnvironmentCredential_password_first(os_environ) ==
    IF AllSet(os_environ, CLIENT_SECRET_VARS) THEN "ClientSecretCredential"
    ELSE IF AllSet(os_environ, USERNAME_PASSWORD_VARS) THEN "UsernamePasswordCredential"
    ELSE IF AllSet(os_environ, CERT_VARS) THEN "CertificateCredential"
    ELSE "None"
EnvironmentCredential(os_environ) ==
    IF AllSet(os_environ, CLIENT_SECRET_VARS) THEN "ClientSecretCredential"
    ELSE IF AllSet(os_environ, CERT_VARS) THEN "CertificateCredential"
    ELSE IF AllSet(os_environ, USERNAME_PASSWORD_VARS) THEN "UsernamePasswordCredential"
    ELSE "None"

InitEnvironment ==
    /\ environ \in
         {[os_environ |-> e, _credential |-> EnvironmentCredential(e),
           calls |-> 0, delegated |-> <<>>, result |-> "none"]
          : e \in [EnvironmentVariableNames -> EnvironmentValues]}
    /\ NoSend
    /\ credential = <<>>
    /\ account = <<>>
    /\ policy = <<>>

\* lines 77-88: one get_token call; the inner credential gives a token or raises
EnvironmentGetToken ==
    /\ environ.calls < MaxGetToken
    /\ IF environ._credential = "None"
       THEN environ' = [environ EXCEPT
                !.calls = @ + 1,
                !.result = "ClientAuthenticationError"]
       ELSE \E out \in {"token", "Exception"} :
                environ' = [environ EXCEPT
                    !.calls = @ + 1,
                    !.delegated = Append(@, environ._credential),
                    !.result = out]
    /\ UNCHANGED <<single, frames, store, cosmos, credential, account, policy>>

NextEnvironment == EnvironmentGetToken

SpecEnvironment == InitEnvironment /\ [][NextEnvironment]_vars

\* ----------- CosmosClient.create_database_if_not_exists (cosmos_client.py)
\* Callers (threads, or clients of several processes) work on one account;
\* each request to the service is one step, and the steps of different
\* callers interleave.
DatabaseCallers == {"t1", "t2"}
DatabaseIds == {"db1", "db2"}

InitAccount ==
    /\ account \in
         {[databases |-> dbs,
           callers |-> [c \in DatabaseCallers |->
                          [pc |-> "call", id |-> ids[c], result |-> "none"]]]
          : dbs \in SUBSET DatabaseIds, ids \in [DatabaseCallers -> DatabaseIds]}
    /\ NoSend
    /\ credential = <<>>
    /\ environ = <<>>
    /\ policy = <<>>

\* the status the service answers a read of database id with
ReadStatuses(id) == {IF id \in account.databases THEN 200 ELSE 404, 500}
\* the status the service answers a create of database id with
CreateStatuses(id) == {IF id \in account.databases THEN 409 ELSE 201, 500}

\* lines 277-284: get_database_client(id), database_proxy.read(); a status
\* >= 400 is raised by _Request as the error of StatusError
ReadDatabase(c) ==
    /\ account.callers[c].pc = "call"
    /\ \E status \in ReadStatuses(account.callers[c].id) :
        account' = [account EXCEPT !.callers[c] =
            IF StatusError(status) = NoError
            THEN [@ EXCEPT !.pc = "done", !.result = "DatabaseProxy"]
            ELSE IF StatusError(status) = "CosmosResourceNotFoundError"
            THEN [@ EXCEPT !.pc = "create"]
            ELSE [@ EXCEPT !.pc = "done", !.result = StatusError(status)]]
    /\ UNCHANGED <<single, frames, store, cosmos, credential, environ, policy>>

\* lines 285-290: create_database(id) in the handler of
\* CosmosResourceNotFoundError; what it raises is not caught
CreateDatabase(c) ==
    /\ account.callers[c].pc = "create"
    /\ \E status \in CreateStatuses(account.callers[c].id) :
        account' = [account EXCEPT
            !.databases = IF status = 201 THEN @ \cup {account.callers[c].id} ELSE @,
            !.callers[c] =
                IF StatusError(status) = NoError
                THEN [@ EXCEPT !.pc = "done", !.result = "DatabaseProxy"]
                ELSE [@ EXCEPT !.pc = "done", !.result = StatusError(status)]]
    /\ UNCHANGED <<single, frames, store, cosmos, credential, environ, policy>>

NextAccount ==
    \/ \E c \in DatabaseCallers : ReadDatabase(c)
    \/ \E c \in DatabaseCallers : CreateDatabase(c)

SpecAccount == InitAccount /\ [][NextAccount]_vars

\* --------------------------- _build_connection_policy (cosmos_client.py)
\* a keyword argument: absent, or given with a value
AbsentInt == [present |-> FALSE, value |-> 0]
AbsentBool == [present |-> FALSE, value |-> FALSE]
KeywordInts == {AbsentInt} \cup {[present |-> TRUE, value |-> v] : v \in {0, 1}}
KeywordBools == {AbsentBool} \cup {[present |-> TRUE, value |-> v] : v \in BOOLEAN}
\* the numbers of the policy before the call (the connection_policy given,
\* or ConnectionPolicy())
ExistingInts == {2}

Keywords ==
    [request_timeout : KeywordInts,
     connection_timeout : {AbsentInt, [present |-> TRUE, value |-> 1]},
     media_request_timeout : KeywordInts,
     enable_endpoint_discovery : KeywordBools,
     multiple_write_locations : KeywordBools,
     retry_total : KeywordInts,
     retry_fixed_interval : KeywordInts,
     retry_backoff_max : KeywordInts]

ConnectionPolicies ==
    [RequestTimeout : ExistingInts,
     MediaRequestTimeout : ExistingInts,
     EnableEndpointDiscovery : BOOLEAN,
     UseMultipleWriteLocations : BOOLEAN,
     _max_retry_attempt_count : ExistingInts,
     _fixed_retry_interval_in_milliseconds : ExistingInts,
     _max_wait_time_in_seconds : ExistingInts]

\* `kwargs.pop(key, None) or existing` for a number: None and 0 are false
PopOrInt(keyword, existing) ==
    IF keyword.present /\ keyword.value # 0 THEN keyword.value ELSE existing
\* `kwargs.pop(key, None) or existing` for a boolean: None and False are false
PopOrBool(keyword, existing) ==
    IF keyword.present /\ keyword.value THEN keyword.value ELSE existing

\* lines 74-106: the policy returned for the keyword arguments kwargs
_build_connection_policy(kwargs, before) ==
    [RequestTimeout |->
        PopOrInt(kwargs.request_timeout,
                 PopOrInt(kwargs.connection_timeout, before.RequestTimeout)),
     MediaRequestTimeout |->
        PopOrInt(kwargs.media_request_timeout, before.MediaRequestTimeout),
     EnableEndpointDiscovery |->
        PopOrBool(kwargs.enable_endpoint_discovery, before.EnableEndpointDiscovery),
     UseMultipleWriteLocations |->
        PopOrBool(kwargs.multiple_write_locations, before.UseMultipleWriteLocations),
     _max_retry_attempt_count |->
        PopOrInt(kwargs.retry_total, before._max_retry_attempt_count),
     _fixed_retry_interval_in_milliseconds |->
        PopOrInt(kwargs.retry_fixed_interval,
                 before._fixed_retry_interval_in_milliseconds),
     _max_wait_time_in_seconds |->
        PopOrInt(kwargs.retry_backoff_max, before._max_wait_time_in_seconds)]

InitPolicy ==
    /\ policy \in {[kwargs |-> k, before |-> b, built |-> FALSE, connection_policy |-> b]
                    : k \in Keywords, b \in ConnectionPolicies}
    /\ NoSend
    /\ credential = <<>>
    /\ environ = <<>>
    /\ account = <<>>

\* lines 152-156: CosmosClient.__init__ builds the connection policy
BuildConnectionPolicy ==
    /\ ~policy.built
    /\ policy' = [policy EXCEPT
            !.built = TRUE,
            !.connection_policy = _build_connection_policy(policy.kwargs, policy.before)]
    /\ UNCHANGED <<single, frames, store, cosmos, credential, environ, account>>

NextPolicy == BuildConnectionPolicy

SpecPolicy == InitPolicy /\ [][NextPolicy]_vars

\* ------------------------------------------------------------ properties
IsResponse(e) == e.kind = "response"
IsError(e) == e.kind = "error"
HasRetryAfter(e) == IsResponse(e) /\ e.retry_after.present

\* the time waited before retry number i
WaitTime(i) == IF waits[i] = <<>> THEN 0 ELSE waits[i][1]

\* min(retry_backoff_max, retry_backoff_factor * 2^(n-1)) of the options
Backoff(n) ==
    Min(options.retry_backoff_max, options.retry_backoff_factor * Pow2(n - 1))

\* C1: send makes at most retry_total + 1 next.send invocations, exactly
\* one per attempt (loop iteration).
C1_AttemptBound ==
    pc # "start" =>
        /\ sends = attempts
        /\ sends <= options.retry_total + 1
        /\ Len(trace) \in {sends - 1, sends}

C1_Witness ==
    /\ pc = "done"
    /\ options.retry_total >= 2
    /\ sends = options.retry_total + 1
    /\ \E i \in DOMAIN trace : IsError(trace[i])

\* C2: a ClientAuthenticationError raised by next.send on any attempt is
\* re-raised at once: it is the last attempt, nothing is slept and no budget
\* is consumed after it.
C2_AuthNotRetried ==
    \A i \in DOMAIN trace :
        trace[i].error = "ClientAuthenticationError" =>
            /\ i = Len(trace)
            /\ pc = "done"
            /\ outcome.kind = "raised"
            /\ outcome.error = "ClientAuthenticationError"
            /\ sends = i
            /\ Len(waits) = i - 1
            /\ Len(retry_settings.history) = i - 1
            /\ retry_settings.total = options.retry_total - (i - 1)

C2_Witness ==
    /\ pc = "done"
    /\ outcome.error = "ClientAuthenticationError"
    /\ sends >= 2
    /\ method = "GET"
    /\ retry_settings.total > 0
    /\ retry_settings.connect > 0

\* C3: when every attempt is answered with status 200, send makes one
\* attempt, never sleeps and returns the response of that attempt.
C3_AlwaysOk ==
    (trace # <<>> /\ \A i \in DOMAIN trace : IsResponse(trace[i]) /\ trace[i].status = 200) =>
        /\ pc = "done"
        /\ sends = 1
        /\ attempts = 1
        /\ waits = <<>>
        /\ outcome.kind = "returned"
        /\ outcome.response = response
        /\ response.id = 1
        /\ response.status = 200
        /\ response.retry_after = trace[1].retry_after

C3_Witness ==
    /\ pc = "done"
    /\ Len(trace) = 1
    /\ trace[1].status = 200
    /\ trace[1].retry_after.present
    /\ options.retry_total > 0
    /\ options.retry_status > 0

\* C4: with retry_total = 0 send makes one attempt whatever its outcome,
\* never sleeps, and returns that response or raises that error.
C4_NoRetries ==
    options.retry_total = 0 =>
        /\ sends <= 1
        /\ waits = <<>>
        /\ pc # "sleep"
        /\ trace # <<>> =>
            /\ pc = "done"
            /\ Len(trace) = 1
            /\ IF IsResponse(trace[1])
               THEN /\ outcome.kind = "returned"
                    /\ outcome.response.id = 1
                    /\ outcome.response.status = trace[1].status
                    /\ outcome.response.retry_after = trace[1].retry_after
               ELSE /\ outcome.kind = "raised"
                    /\ outcome.error = trace[1].error

C4_Witness ==
    /\ options.retry_total = 0
    /\ options.retry_status > 0
    /\ pc = "done"
    /\ trace[1].status = 503
    /\ outcome.kind = "returned"

\* C5 (as stated): for the responses [429, 429, 200] with retry_status = 3
\* and retry_total >= 2, send makes 3 attempts, returns the 200, and waits
\* backoff(1) then backoff(2), each replaced by the Retry-After value of
\* that 429 when it carries one.
C5_ThrottledTwice ==
    LET n == Len(trace)
        expected == <<429, 429, 200>>
    IN  (/\ options.retry_status = RetryStatusDefault
         /\ options.retry_total >= 2
         /\ n \in 1..3
         /\ \A i \in 1..n : IsResponse(trace[i]) /\ trace[i].status = expected[i]) =>
            /\ n < 3 => pc \in {"send", "sleep"}
            /\ n = 3 =>
                /\ pc = "done"
                /\ sends = 3
                /\ outcome.kind = "returned"
                /\ outcome.response.status = 200
                /\ outcome.response.id = 3
            /\ \A i \in DOMAIN waits :
                WaitTime(i) = IF trace[i].retry_after.present
                              THEN trace[i].retry_after.value
                              ELSE Backoff(i)

\* C6: a read error on POST is never retried: send raises it after that
\* attempt with no sleep and no budget consumed, whatever budgets remain.
C6_ReadErrorOnPost ==
    method = "POST" =>
        \A i \in DOMAIN trace :
            trace[i].error = "ServiceResponseError" =>
                /\ i = Len(trace)
                /\ pc = "done"
                /\ outcome.kind = "raised"
                /\ outcome.error = "ServiceResponseError"
                /\ sends = i
                /\ Len(waits) = i - 1
                /\ retry_settings.read = options.retry_read
                /\ retry_settings.total = options.retry_total - (i - 1)

C6_Witness ==
    /\ method = "POST"
    /\ pc = "done"
    /\ sends = 1
    /\ outcome.error = "ServiceResponseError"
    /\ options.retry_read > 0
    /\ options.retry_total > 0

\* C7 (as stated): a connection error is retried for every HTTP method
\* while retry_connect and retry_total remain: send never raises a
\* connection error with both budgets still positive.
C7_ConnectErrorRetried ==
    (pc = "done" /\ outcome.kind = "raised" /\ outcome.error = "ServiceRequestError") =>
        \/ retry_settings.total <= 0
        \/ retry_settings.connect <= 0

C9_RetryAfterHonoured ==
    \A i \in DOMAIN waits :
        HasRetryAfter(trace[i]) => WaitTime(i) = trace[i].retry_after.value

C11_BudgetsMonotone ==
    [][pc # "start" =>
        /\ retry_settings'.total \in {retry_settings.total, retry_settings.total - 1}
        /\ retry_settings'.connect <= retry_settings.connect
        /\ retry_settings'.read <= retry_settings.read
        /\ retry_settings'.status <= retry_settings.status
        /\ Len(waits') = Len(waits) + 1 =>
              retry_settings'.total = retry_settings.total - 1]_vars

C11_Witness ==
    /\ pc = "send"
    /\ sends = 3
    /\ waits[1] # <<>>
    /\ retry_settings.total = options.retry_total - 2
    /\ retry_settings.connect < options.retry_connect
    /\ retry_settings.status < options.retry_status

\* C13: the steps of one call are sequential: an attempt starts only after
\* the previous one was evaluated and its wait is over, at most one
\* transport.sleep lies between two attempts, and no wait follows the final
\* attempt (waits <= attempts - 1).
C13_Sequential ==
    /\ \A i \in DOMAIN waits : Len(waits[i]) <= 1
    /\ pc = "send" => Len(trace) = sends - 1 /\ Len(waits) = attempts - 1
    /\ pc = "sleep" => /\ Len(trace) = sends
                       /\ Len(waits) = attempts
                       /\ waits[Len(waits)] = <<sleeping>>
    /\ pc = "done" => Len(trace) = sends /\ Len(waits) = attempts - 1

C13_Witness ==
    /\ pc = "done"
    /\ attempts = 3
    /\ waits[1] # <<>>
    /\ waits[2] # <<>>
    /\ trace[2].retry_after.present

\* C14: the caller gets the outcome of the last attempt: the response
\* returned is the one the final next.send produced, the error raised is
\* the one the final next.send raised.
C14_LastOutcome ==
    pc = "done" =>
        LET last == trace[Len(trace)]
        IN  /\ Len(trace) = sends
            /\ outcome.kind \in {"returned", "raised"}
            /\ outcome.id = sends
            /\ outcome.kind = "returned" =>
                /\ IsResponse(last)
                /\ outcome.response.id = sends
                /\ outcome.response.status = last.status
                /\ outcome.response.retry_after = last.retry_after
            /\ outcome.kind = "raised" =>
                /\ IsError(last)
                /\ outcome.error = last.error

C14_Witness ==
    /\ pc = "done"
    /\ sends = 3
    /\ outcome.kind = "returned"
    /\ trace[1].status # trace[3].status
    /\ trace[2].status # trace[3].status
    /\ IsResponse(trace[1])

\* C15 (as stated): an AzureError that is neither a connection error, a read
\* error nor an authentication error ends send after that single attempt:
\* it is raised with no retry, no sleep and no budget consumed.
C15_OtherErrorPropagates ==
    \A i \in DOMAIN trace :
        trace[i].error = "AzureError" =>
            /\ i = Len(trace)
            /\ pc = "done"
            /\ outcome.kind = "raised"
            /\ outcome.error = "AzureError"
            /\ Len(waits) = i - 1
            /\ retry_settings.total = options.retry_total - (i - 1)

\* C16: a response with a retryable status is retried against retry_status
\* whatever the HTTP method, and a response that is not retryable is
\* returned after that attempt with the budgets as they were.
C16_StatusRetry ==
    pc # "start" =>
        \A i \in DOMAIN trace :
            IsResponse(trace[i]) =>
                IF trace[i].status \in RetryCodes
                THEN /\ Len(retry_settings.history) >= i
                     /\ retry_settings.history[i] = "status"
                     /\ (i = Len(trace) /\ pc = "done") => is_exhausted(retry_settings)
                ELSE /\ i = Len(trace)
                     /\ pc = "done"
                     /\ outcome.kind = "returned"
                     /\ Len(retry_settings.history) = i - 1
                     /\ retry_settings.total = options.retry_total - (i - 1)

C16_Witness ==
    /\ method = "POST"
    /\ pc = "done"
    /\ sends = 3
    /\ trace[1].status = 503
    /\ trace[2].status = 429
    /\ trace[3].status = 404
    /\ retry_settings.status = options.retry_status - 2

\* C17: when send returns a response, the context was updated with the
\* retry settings once, after the last attempt; it is not updated between
\* attempts.
C17_ContextOnReturn ==
    /\ pc # "done" => context = <<>>
    /\ (pc = "done" /\ outcome.kind = "returned") =>
        /\ Len(context) = 1
        /\ context[1].id = sends
        /\ context[1].id = outcome.response.id
        /\ context[1].history = retry_settings.history

C17_Witness ==
    /\ pc = "done"
    /\ outcome.kind = "returned"
    /\ sends = 3
    /\ Len(context) = 1
    /\ Len(context[1].history) = 2
\* the response object a trace entry stands for
AsResponse(e, i) ==
    [kind |-> "response", status |-> e.status, retry_after |-> e.retry_after, id |-> i]

\* the retry settings of a call that ran alone and saw the outcomes tr
RECURSIVE AloneSettings(_, _, _)
AloneSettings(opts, m, tr) ==
    IF tr = <<>>
    THEN configure_retries(opts)
    ELSE LET n == Len(tr)
             e == tr[n]
             before == AloneSettings(opts, m, SubSeq(tr, 1, n - 1))
         IN  IF IsResponse(e)
             THEN IF is_retry(before, AsResponse(e, n))
                  THEN increment(before, AsResponse(e, n), NoError)
                  ELSE before
             ELSE IF e.error \in AzureErrors /\ _is_method_retryable(before, m)
                  THEN increment(before, None, e.error)
                  ELSE before

\* C12: the retry settings belong to one call: with calls interleaved on
\* one policy, or a call abandoned while suspended, the remaining budgets
\* and the attempt count of every call are those of the call run alone on
\* the outcomes it saw.
C12_SettingsPerCall ==
    \A c \in Callers :
        frames[c].pc # "start" =>
            /\ store[c] = AloneSettings(options, frames[c].method, frames[c].trace)
            /\ frames[c].attempts = frames[c].sends
            /\ frames[c].sends \in {Len(frames[c].trace), Len(frames[c].trace) + 1}
            /\ frames[c].sends <= options.retry_total + 1

C12_Witness ==
    /\ frames["c1"].pc = "abandoned"
    /\ frames["c1"].sends = 2
    /\ frames["c2"].pc = "done"
    /\ frames["c2"].sends = 3
    /\ frames["c2"].method = frames["c1"].method
    /\ store["c2"].total = 0
    /\ store["c1"].total = 1

C19_PathQueryKept ==
    UrlPathQuery(cosmos.url) = UrlPathQuery(cosmos.url0)

\* C20 (as stated): after every _Request invocation request.url targets the
\* base URL resolved by that invocation, for any sequence of invocations on
\* the same request object.
C20_TargetsResolved ==
    cosmos.invocations > 0 => UrlBase(cosmos.url) = cosmos.base_url

\* C21: every _Request invocation calls refresh_endpoint_list exactly once,
\* before the endpoint is resolved and before the pipeline runs, also with
\* an endpoint override, and then resolve_service_endpoint is not called.
C21_RefreshFirst ==
    cosmos.invocations > 0 =>
        /\ cosmos.events[1] = "refresh_endpoint_list"
        /\ Count(cosmos.events, "refresh_endpoint_list") = 1
        /\ Count(cosmos.events, "run") = 1
        /\ cosmos.events[Len(cosmos.events)] = "run"
        /\ Count(cosmos.events, "resolve_service_endpoint")
                = IF cosmos.override # NoOverride THEN 0 ELSE 1
        /\ cosmos.refreshes = cosmos.invocations
        /\ cosmos.runs = cosmos.invocations
        /\ cosmos.resolves <= cosmos.invocations

C21_Witness ==
    /\ cosmos.invocations = 2
    /\ cosmos.override # NoOverride
    /\ cosmos.resolves = 1
    /\ cosmos.refreshes = 2

\* the last invocation got a response from the pipeline; it was (not) a
\* media request, read as a stream
GotResponse == cosmos.invocations > 0 /\ cosmos.out.kind = "response"
WasMedia == Contains(cosmos.url_in, <<"m">>)
WasMediaStream == WasMedia /\ cosmos.MediaReadMode = "Streamed"

\* C22 (as stated): for every response with status >= 400 _Request raises
\* and returns no result: 404 CosmosResourceNotFoundError, 409
\* CosmosResourceExistsError, 412 CosmosAccessConditionFailedError, any other
\* CosmosHttpResponseError, after a single pipeline run.
C22_ErrorStatusRaises ==
    (GotResponse /\ cosmos.out.status >= 400) =>
        /\ cosmos.result.kind = "raised"
        /\ cosmos.result.value = "None"
        /\ cosmos.result.error =
                IF cosmos.out.status = 404 THEN "CosmosResourceNotFoundError"
                ELSE IF cosmos.out.status = 409 THEN "CosmosResourceExistsError"
                ELSE IF cosmos.out.status = 412 THEN "CosmosAccessConditionFailedError"
                ELSE "CosmosHttpResponseError"
        /\ Count(cosmos.events, "run") = 1

\* C23 (as stated): a non-media response with status < 400 and a non-empty
\* body that is not valid JSON makes _Request raise DecodeError with the
\* response and the parse error, after one pipeline run; an empty body gives
\* the result None.
C23_DecodeError ==
    (GotResponse /\ ~WasMedia /\ cosmos.out.status < 400) =>
        /\ cosmos.out.body \notin {"", "json"} =>
                /\ cosmos.result.kind = "raised"
                /\ cosmos.result.error = "DecodeError"
                /\ cosmos.result.status = cosmos.out.status
                /\ cosmos.result.inner # NoError
                /\ Count(cosmos.events, "run") = 1
        /\ cosmos.out.body = "" =>
                /\ cosmos.result.kind = "returned"
                /\ cosmos.result.value = "None"

\* C30: in streamed media mode _Request returns the download stream for
\* every status code, 404, 409, 412 and the other statuses >= 400 included:
\* no Cosmos error is raised.
C30_StreamedReturns ==
    (GotResponse /\ WasMediaStream) =>
        /\ cosmos.result.kind = "returned"
        /\ cosmos.result.value = "stream"
        /\ cosmos.result.error = NoError

C30_Witness ==
    /\ GotResponse
    /\ WasMediaStream
    /\ cosmos.out.status = 404
    /\ cosmos.out.body = "bytes"
    /\ cosmos.result.value = "stream"
    /\ cosmos.invocations = 2

\* C24 (as stated): the authorization code is redeemed only on the first
\* get_token call: over any sequence of calls, calls that raise included, it
\* is submitted to obtain_token_by_authorization_code at most once, and
\* later calls use the cached access token or a refresh token.
C24_CodeRedeemedOnce ==
    /\ Len(credential.submitted) <= 1
    /\ \A i \in DOMAIN credential.submitted : credential.submitted[i] = 1

\* the variables v are all set in the environment of the credential
Has(v) == \A name \in v : environ.os_environ[name] # "None"

\* C25: EnvironmentCredential chooses its inner credential in the documented
\* order for every combination of set and unset variables: client secret,
\* else certificate, else username and password; with none of the three
\* sets complete every get_token call raises ClientAuthenticationError and
\* no credential is called.
C25_DocumentedOrder ==
    LET secret == Has({"AZURE_CLIENT_ID", "AZURE_CLIENT_SECRET", "AZURE_TENANT_ID"})
        cert == Has({"AZURE_CLIENT_ID", "AZURE_CLIENT_CERTIFICATE_PATH", "AZURE_TENANT_ID"})
        user == Has({"AZURE_CLIENT_ID", "AZURE_USERNAME", "AZURE_PASSWORD"})
        chosen == IF secret THEN "ClientSecretCredential"
                  ELSE IF cert THEN "CertificateCredential"
                  ELSE "UsernamePasswordCredential"
    IN  IF secret \/ cert \/ user
        THEN /\ Len(environ.delegated) = environ.calls
             /\ \A i \in DOMAIN environ.delegated : environ.delegated[i] = chosen
             /\ environ.result # "ClientAuthenticationError"
        ELSE /\ environ.delegated = <<>>
             /\ environ.calls > 0 => environ.result = "ClientAuthenticationError"

C25_Witness ==
    /\ environ.os_environ["AZURE_CLIENT_SECRET"] = "None"
    /\ Has({"AZURE_CLIENT_ID", "AZURE_CLIENT_CERTIFICATE_PATH", "AZURE_TENANT_ID",
            "AZURE_USERNAME", "AZURE_PASSWORD"})
    /\ environ.calls = 2
    /\ environ.delegated = <<"CertificateCredential", "CertificateCredential">>

\* C26 (as stated): create_database_if_not_exists(id) creates the database
\* when it is missing and returns the existing one otherwise: under any
\* interleaving of callers using the same id no caller gets
\* CosmosResourceExistsError, and a caller the service did not fail gets a
\* DatabaseProxy for a database that exists.
C26_NoExistsError ==
    \A c \in DatabaseCallers :
        account.callers[c].pc = "done" =>
            /\ account.callers[c].result # "CosmosResourceExistsError"
            /\ account.callers[c].result = "DatabaseProxy" =>
                    account.callers[c].id \in account.databases

\* the value the keyword must give the policy field: its own when it is
\* given, the existing one when it is absent
Overridden(keyword, existing) ==
    IF keyword.present THEN keyword.value ELSE existing

\* C27 (as stated): every keyword override passed to CosmosClient
\* (retry_total, retry_backoff_max, retry_fixed_interval,
\* enable_endpoint_discovery, multiple_write_locations, request_timeout,
\* media_request_timeout) replaces the value of the connection policy for
\* every value supplied, 0 and False included; only an absent keyword keeps
\* the existing value.
C27_OverridesApply ==
    policy.built =>
        LET k == policy.kwargs
            b == policy.before
            p == policy.connection_policy
        IN  /\ p._max_retry_attempt_count
                    = Overridden(k.retry_total, b._max_retry_attempt_count)
            /\ p._max_wait_time_in_seconds
                    = Overridden(k.retry_backoff_max, b._max_wait_time_in_seconds)
            /\ p._fixed_retry_interval_in_milliseconds
                    = Overridden(k.retry_fixed_interval,
                                 b._fixed_retry_interval_in_milliseconds)
            /\ p.EnableEndpointDiscovery
                    = Overridden(k.enable_endpoint_discovery, b.EnableEndpointDiscovery)
            /\ p.UseMultipleWriteLocations
                    = Overridden(k.multiple_write_locations, b.UseMultipleWriteLocations)
            /\ p.MediaRequestTimeout
                    = Overridden(k.media_request_timeout, b.MediaRequestTimeout)
            /\ (k.request_timeout.present \/ ~k.connection_timeout.present) =>
                    p.RequestTimeout = Overridden(k.request_timeout, b.RequestTimeout)

\* C28: when send ends by raising (authentication error, error on a method
\* that is not retryable, error with the budget exhausted) update_context
\* was not invoked for the call: the context holds no retry statistics.
C28_NoContextOnRaise ==
    (pc = "done" /\ outcome.kind = "raised") =>
        /\ context = <<>>
        /\ IsError(trace[Len(trace)])

C28_Witness ==
    /\ pc = "done"
    /\ outcome.kind = "raised"
    /\ outcome.error = "ServiceRequestError"
    /\ is_exhausted(retry_settings)
    /\ sends >= 2
    /\ IsResponse(trace[1])
    /\ context = <<>>

\* C29: after an attempt that ended in a retried error the wait is the
\* computed backoff: sleep is called without a response, so no Retry-After
\* (that of an earlier response included) is consulted, and with a backoff
\* <= 0 the next attempt follows with no transport.sleep.
C29_ErrorWaitIsBackoff ==
    \A i \in DOMAIN waits :
        IsError(trace[i]) =>
            /\ waits[i] = IF Backoff(i) <= 0 THEN <<>> ELSE <<Backoff(i)>>
            /\ Backoff(i) <= 0 =>
                    (pc # "sleep" \/ i < Len(waits))

C29_Witness ==
    /\ Len(waits) = 2
    /\ IsResponse(trace[1])
    /\ trace[1].retry_after.present
    /\ trace[1].retry_after.value = MaxRetryAfter
    /\ IsError(trace[2])
    /\ waits[1] = <<MaxRetryAfter>>
    /\ waits[2] # <<>>
    /\ waits[2] # waits[1]
====
